---- MODULE Spec2Model ----
(***************************************************************************)
(* Model of home_console_sdk.remote_plugin: RemotePluginBase (lifecycle    *)
(* flags, service registry, metadata) and the six handlers built by        *)
(* create_lifecycle_handlers.                                              *)
(*                                                                         *)
(* Strings the code inspects character by character (endpoint, method,     *)
(* version) are sequences of one-character strings; strings it only        *)
(* compares as a whole (plugin name, service name, description) are TLA+   *)
(* strings.                                                                *)
(*                                                                         *)
(* The hooks on_load / on_start / on_stop / on_unload are plugin-author    *)
(* code: whether a hook returns or raises is an input of every call.       *)
(***************************************************************************)
EXTENDS Integers, Sequences, FiniteSets, TLC

VARIABLES
    loaded,     \* plugin._loaded
    started,    \* plugin._started
    services,   \* plugin._services
    name,       \* class attribute name of the plugin subclass
    version,    \* class attribute version of the plugin subclass
    resp,       \* what the last call returned (or that it raised)
    last,       \* the last call: operation, hook it invoked, hook outcome, flags before it
                \* (and, of a register_service call, the endpoint and method given)
    lastOk,     \* the last lifecycle operation whose handler answered "ok" ("none" before any)
    okCalls,    \* arguments of the register_service calls that returned normally, in order
    tasks,      \* overlapping handler calls: position and result of each
    run         \* one PluginBase.run call: its environment, position, calls made and outcome

vars == <<loaded, started, services, name, version, resp, last, lastOk, okCalls, tasks, run>>

\* ---------------------------------------------------------------- bounds
MaxServices == 2
MaxTasks == 3
MaxEntries == 2

\* ---------------------------------------------------------------- strings
SLASH == "/"

GET == <<"G", "E", "T">>
POST == <<"P", "O", "S", "T">>

\* str.upper on the characters the inputs use
UpperChar(c) ==
    CASE c = "g" -> "G"
      [] c = "e" -> "E"
      [] c = "t" -> "T"
      [] c = "p" -> "P"
      [] c = "o" -> "O"
      [] c = "s" -> "S"
      [] c = "u" -> "U"
      [] OTHER -> c

upper(s) == [i \in 1..Len(s) |-> UpperChar(s[i])]

\* str.startswith for a one-character prefix
startswith(s, c) == Len(s) >= 1 /\ s[1] = c

\* ---------------------------------------------------------------- inputs
ServiceNames == {"metrics.report", "metrics.dump"}
Endpoints == {<<"/", "x">>, <<"x", "/">>, <<>>}
Methods == {GET, <<"p", "o", "s", "t">>, <<"P", "U", "T">>}
Descriptions == {"", "d"}
PluginNames == {"", "unknown_plugin", "metrics"}
Versions == {<<>>, <<"1", ".", "0">>, <<"1", ".", "0", ".", "0">>}
Timestamps == {1, 2}

Ops == {"load", "start", "stop", "unload"}

\* ---------------------------------------------------------------- identity
type == "system"
mode == "remote"
description == ""
author == ""

\* ---------------------------------------------------------------- registry
\* the two checks of register_service that raise ValueError
register_raises(endpoint, method) ==
    \/ ~startswith(endpoint, SLASH)
    \/ upper(method) \notin {GET, POST}

service_rawmethod(n, endpoint, method, d) ==
    IF d # ""
    THEN [name |-> n, endpoint |-> endpoint, method |-> method, description |-> d]
    ELSE [name |-> n, endpoint |-> endpoint, method |-> method]

\* the dict register_service builds
service(n, endpoint, method, d) ==
    IF d # ""
    THEN [name |-> n, endpoint |-> endpoint, method |-> upper(method), description |-> d]
    ELSE [name |-> n, endpoint |-> endpoint, method |-> upper(method)]

register_service_appendfirst(svcs, n, endpoint, method, d) ==
    Append(svcs, service(n, endpoint, method, d))

register_service_prepend(svcs, n, endpoint, method, d) ==
    IF register_raises(endpoint, method)
    THEN svcs
    ELSE <<service(n, endpoint, method, d)>> \o svcs

\* self._services after register_service(n, endpoint, method, d)
register_service(svcs, n, endpoint, method, d) ==
    IF register_raises(endpoint, method)
    THEN svcs
    ELSE Append(svcs, service(n, endpoint, method, d))

get_metadata_onlyloaded ==
    [name |-> name, type |-> type, mode |-> mode, version |-> version,
     description |-> description, author |-> author,
     services |-> IF loaded THEN services ELSE <<>>]

get_metadata ==
    [name |-> name, type |-> type, mode |-> mode, version |-> version,
     description |-> description, author |-> author, services |-> services]

NoCall == [op |-> "none", hook |-> "none", raised |-> FALSE,
           pre_loaded |-> FALSE, pre_started |-> FALSE, pre_ok |-> "none"]

Call(op, hook, raised) ==
    [op |-> op, hook |-> hook, raised |-> raised,
     pre_loaded |-> loaded, pre_started |-> started, pre_ok |-> lastOk]

IdleTask == [pc |-> "idle", op |-> "none", status |-> "none", overlap |-> FALSE, pre_loaded |-> FALSE]

IdleTasks == [t \in 1..MaxTasks |-> IdleTask]

\* no PluginBase.run call is under way
NoRun == [pc |-> "none"]

\* ---------------------------------------------------------------- initial state
\* RemotePluginBase.__init__ of a subclass with some name and version
Init ==
    /\ loaded = FALSE
    /\ started = FALSE
    /\ services = <<>>
    /\ name \in PluginNames
    /\ version \in Versions
    /\ resp = [status |-> "none"]
    /\ last = NoCall
    /\ lastOk = "none"
    /\ okCalls = <<>>
    /\ tasks = IdleTasks
    /\ run = NoRun

\* ---------------------------------------------------------------- operations
Register(n, endpoint, method, d) ==
    /\ Len(services) < MaxServices
    /\ services' = register_service(services, n, endpoint, method, d)
    /\ okCalls' = IF register_raises(endpoint, method)
                  THEN okCalls
                  ELSE Append(okCalls, [name |-> n, endpoint |-> endpoint, method |-> method, description |-> d])
    /\ resp' = IF register_raises(endpoint, method)
               THEN [status |-> "ValueError"]
               ELSE [status |-> "returned"]
    /\ last' = Call("register", "none", register_raises(endpoint, method))
                   @@ [endpoint |-> endpoint, method |-> method]
    /\ UNCHANGED <<loaded, started, name, version, lastOk, tasks, run>>

metadata_handler ==
    /\ resp' = get_metadata
    /\ last' = Call("metadata", "none", FALSE)
    /\ UNCHANGED <<loaded, started, services, name, version, lastOk, okCalls, tasks, run>>

\* What a lifecycle handler does once its hook has returned (raises = FALSE)
\* or raised an Exception (raises = TRUE), from flags l, s: the new flags and
\* the response.  The flag assignments follow the await in the try block, so
\* a raising hook skips them.
load_handler(raises, l, s) ==
    IF raises
    THEN [loaded |-> l, started |-> s, resp |-> [status |-> "error", message |-> "e"]]
    ELSE [loaded |-> TRUE, started |-> s, resp |-> [status |-> "ok", message |-> "plugin loaded"]]

start_handler_noflag(raises, l, s) ==
    IF raises
    THEN [loaded |-> l, started |-> s, resp |-> [status |-> "error", message |-> "e"]]
    ELSE [loaded |-> l, started |-> s, resp |-> [status |-> "ok", message |-> "plugin started"]]

start_handler(raises, l, s) ==
    IF raises
    THEN [loaded |-> l, started |-> s, resp |-> [status |-> "error", message |-> "e"]]
    ELSE [loaded |-> l, started |-> TRUE, resp |-> [status |-> "ok", message |-> "plugin started"]]

stop_handler_flagfirst(raises, l, s) ==
    IF raises
    THEN [loaded |-> l, started |-> FALSE, resp |-> [status |-> "error", message |-> "e"]]
    ELSE [loaded |-> l, started |-> FALSE, resp |-> [status |-> "ok", message |-> "plugin stopped"]]

stop_handler(raises, l, s) ==
    IF raises
    THEN [loaded |-> l, started |-> s, resp |-> [status |-> "error", message |-> "e"]]
    ELSE [loaded |-> l, started |-> FALSE, resp |-> [status |-> "ok", message |-> "plugin stopped"]]

unload_handler(raises, l, s) ==
    IF raises
    THEN [loaded |-> l, started |-> s, resp |-> [status |-> "error", message |-> "e"]]
    ELSE [loaded |-> FALSE, started |-> FALSE, resp |-> [status |-> "ok", message |-> "plugin unloaded"]]

\* the handlers dict of create_lifecycle_handlers, lifecycle entries
handlers(op, raises, l, s) ==
    CASE op = "load" -> load_handler(raises, l, s)
      [] op = "start" -> start_handler(raises, l, s)
      [] op = "stop" -> stop_handler(raises, l, s)
      [] op = "unload" -> unload_handler(raises, l, s)

\* the hook each handler awaits
hook_of(op) ==
    CASE op = "load" -> "on_load"
      [] op = "start" -> "on_start"
      [] op = "stop" -> "on_stop"
      [] op = "unload" -> "on_unload"

\* One whole handler call with nothing else running in between: the hook runs
\* and returns or raises, the handler sets the flags and answers.
Load(raises) ==
    LET r == load_handler(raises, loaded, started) IN
    /\ loaded' = r.loaded
    /\ started' = r.started
    /\ resp' = r.resp
    /\ last' = Call("load", hook_of("load"), raises)
    /\ lastOk' = IF r.resp.status = "ok" THEN "load" ELSE lastOk
    /\ UNCHANGED <<services, name, version, okCalls, tasks, run>>

Start(raises) ==
    LET r == start_handler(raises, loaded, started) IN
    /\ loaded' = r.loaded
    /\ started' = r.started
    /\ resp' = r.resp
    /\ last' = Call("start", hook_of("start"), raises)
    /\ lastOk' = IF r.resp.status = "ok" THEN "start" ELSE lastOk
    /\ UNCHANGED <<services, name, version, okCalls, tasks, run>>

Stop(raises) ==
    LET r == stop_handler(raises, loaded, started) IN
    /\ loaded' = r.loaded
    /\ started' = r.started
    /\ resp' = r.resp
    /\ last' = Call("stop", hook_of("stop"), raises)
    /\ lastOk' = IF r.resp.status = "ok" THEN "stop" ELSE lastOk
    /\ UNCHANGED <<services, name, version, okCalls, tasks, run>>

Unload_clearsregistry(raises) ==
    LET r == unload_handler(raises, loaded, started) IN
    /\ loaded' = r.loaded
    /\ started' = r.started
    /\ resp' = r.resp
    /\ last' = Call("unload", hook_of("unload"), raises)
    /\ lastOk' = IF r.resp.status = "ok" THEN "unload" ELSE lastOk
    /\ services' = IF raises THEN services ELSE <<>>
    /\ UNCHANGED <<name, version, okCalls, tasks, run>>

Unload(raises) ==
    LET r == unload_handler(raises, loaded, started) IN
    /\ loaded' = r.loaded
    /\ started' = r.started
    /\ resp' = r.resp
    /\ last' = Call("unload", hook_of("unload"), raises)
    /\ lastOk' = IF r.resp.status = "ok" THEN "unload" ELSE lastOk
    /\ UNCHANGED <<services, name, version, okCalls, tasks, run>>

health_alwaystrue(ts) ==
    [status |-> "ok", loaded |-> TRUE, started |-> TRUE, timestamp |-> ts]

\* RemotePluginBase.health, the default implementation
health(ts) ==
    [status |-> "ok", loaded |-> loaded, started |-> started, timestamp |-> ts]

health_handler(ts) ==
    /\ resp' = health(ts)
    /\ last' = Call("health", "none", FALSE)
    /\ UNCHANGED <<loaded, started, services, name, version, lastOk, okCalls, tasks, run>>

Next ==
    \/ \E n \in ServiceNames, e \in Endpoints, m \in Methods, d \in Descriptions :
          Register(n, e, m, d)
    \/ metadata_handler
    \/ \E ts \in Timestamps : health_handler(ts)
    \/ \E raises \in BOOLEAN : Load(raises)
    \/ \E raises \in BOOLEAN : Start(raises)
    \/ \E raises \in BOOLEAN : Stop(raises)
    \/ \E raises \in BOOLEAN : Unload(raises)

Spec == Init /\ [][Next]_vars

\* ---------------------------------------------------------------- registration phase
\* the register_service calls alone, as a constructor or configuration step makes them
NextReg ==
    \E n \in ServiceNames, e \in Endpoints, m \in Methods, d \in Descriptions :
        Register(n, e, m, d)

SpecReg == Init /\ [][NextReg]_vars

\* ---------------------------------------------------------------- validation
\* validate_metadata inspects self._services with isinstance and "in", so the
\* values it may meet are modelled with their Python type: a value is
\* [kind |-> "str" | "dict" | "list" | "other", v |-> payload], the payload of a
\* str being its text, of a dict a function from its keys to values, of a list
\* a sequence of values; "other" is any value of another type (None, 5, ...).
PyStr(x) == [kind |-> "str", v |-> x]
PyOther == [kind |-> "other", v |-> <<>>]
PyDict(f) == [kind |-> "dict", v |-> f]
PyList(items) == [kind |-> "list", v |-> items]

\* self._services as register_service builds it: a list of dicts of str
py_services(svcs) ==
    PyList([i \in 1..Len(svcs) |->
               PyDict([k \in DOMAIN svcs[i] |-> PyStr(svcs[i][k])])])

RECURSIVE count(_, _)
\* str.count for a one-character pattern
count(str, c) ==
    IF str = <<>>
    THEN 0
    ELSE count(Tail(str), c) + (IF Head(str) = c THEN 1 ELSE 0)

name_errors_noplaceholder(nm) ==
    IF nm = "" THEN <<<<"name">>>> ELSE <<>>

\* the name check
name_errors(nm) ==
    IF nm = "" \/ nm = "unknown_plugin" THEN <<<<"name">>>> ELSE <<>>

\* the version check: an empty version is falsy and skips the count
version_errors(ver) ==
    IF ver # <<>> /\ count(ver, ".") < 2 THEN <<<<"version", ver>>>> ELSE <<>>

\* the body of the loop for entry svc at 0-based index i: the diagnostics it
\* appends, or that it raises (svc["endpoint"].startswith on a value that is
\* not a str is an AttributeError)
service_errors(i, svc) ==
    IF svc.kind # "dict"
    THEN [raised |-> FALSE, errors |-> <<<<"not a dict", i>>>>]
    ELSE LET f == svc.v
             has(k) == k \in DOMAIN f
             missing == (IF has("name") THEN <<>> ELSE <<<<"missing", i, "name">>>>)
                        \o (IF has("endpoint") THEN <<>> ELSE <<<<"missing", i, "endpoint">>>>)
                        \o (IF has("method") THEN <<>> ELSE <<<<"missing", i, "method">>>>)
             endpoint == IF has("endpoint") /\ f["endpoint"].kind = "str"
                            /\ ~startswith(f["endpoint"].v, SLASH)
                         THEN <<<<"endpoint", i>>>>
                         ELSE <<>>
             method == IF has("method") /\ f["method"] \notin {PyStr(GET), PyStr(POST)}
                       THEN <<<<"method", i>>>>
                       ELSE <<>>
         IN  IF has("endpoint") /\ f["endpoint"].kind # "str"
             THEN [raised |-> TRUE, errors |-> <<>>]
             ELSE [raised |-> FALSE, errors |-> missing \o endpoint \o method]

RECURSIVE services_errors(_, _)
\* the loop over the first n entries of the list
services_errors(items, n) ==
    IF n = 0
    THEN [raised |-> FALSE, errors |-> <<>>]
    ELSE LET before == services_errors(items, n - 1)
             this == service_errors(n - 1, items[n])
         IN  IF before.raised \/ this.raised
             THEN [raised |-> TRUE, errors |-> <<>>]
             ELSE [raised |-> FALSE, errors |-> before.errors \o this.errors]

\* validate_metadata of a plugin with name nm, version ver and _services svcs:
\* the list it returns, or that it raises
validate_metadata(nm, ver, svcs) ==
    LET loop == IF svcs.kind # "list"
                THEN [raised |-> FALSE, errors |-> <<<<"services must be a list">>>>]
                ELSE services_errors(svcs.v, Len(svcs.v))
    IN  IF loop.raised
        THEN [raised |-> TRUE, errors |-> <<>>]
        ELSE [raised |-> FALSE,
              errors |-> name_errors(nm) \o version_errors(ver) \o loop.errors]

\* values _services may hold when validate_metadata runs
GoodEntry ==
    PyDict([name |-> PyStr("metrics.report"), endpoint |-> PyStr(<<"/", "x">>), method |-> PyStr(GET)])

Entries ==
    {PyOther,
     PyDict(<<>>),
     GoodEntry,
     PyDict([endpoint |-> PyStr(<<"x", "/">>), method |-> PyStr(POST)]),
     PyDict([name |-> PyStr("metrics.dump"), endpoint |-> PyStr(<<"/", "x">>), method |-> PyStr(<<"p", "o", "s", "t">>)]),
     PyDict([name |-> PyStr("metrics.dump"), endpoint |-> PyStr(<<"/", "x">>), method |-> PyOther]),
     PyDict([name |-> PyStr("metrics.dump"), endpoint |-> PyOther, method |-> PyStr(GET)])}

ServicesValues ==
    {PyOther} \cup {PyList(items) : items \in UNION {[1..n -> Entries] : n \in 0..MaxEntries}}

InitValidate ==
    /\ loaded = FALSE
    /\ started = FALSE
    /\ services \in ServicesValues
    /\ name \in PluginNames
    /\ version \in Versions
    /\ resp = [status |-> "none"]
    /\ last = NoCall
    /\ lastOk = "none"
    /\ okCalls = <<>>
    /\ tasks = IdleTasks
    /\ run = NoRun

Validate ==
    /\ resp' = validate_metadata(name, version, services)
    /\ last' = Call("validate", "none", resp'.raised)
    /\ UNCHANGED <<loaded, started, services, name, version, lastOk, okCalls, tasks, run>>

NextValidate == Validate

SpecValidate == InitValidate /\ [][NextValidate]_vars

\* ---------------------------------------------------------------- PluginBase.run
\* One call of PluginBase.run.  Its environment is fixed when it starts: the
\* PLUGIN_<ID>_* variables that are set, and whether core.login, on_start,
\* on_stop and core.close return or raise (on_start may also be interrupted
\* by KeyboardInterrupt).  run.calls lists the calls made so far, run.pending
\* is the exception the try block left to propagate after the finally block.
None == [kind |-> "none", v |-> <<>>]

\* os.getenv(env_key, default) behind get_config
get_config(env, key, default) ==
    IF key \in DOMAIN env THEN PyStr(env[key]) ELSE default

\* Python truth of a str or None
truthy(x) == x.kind = "str" /\ x.v # ""

Environments ==
    {[USERNAME |-> "plugin"],
     [USERNAME |-> "plugin", PASSWORD |-> ""],
     [USERNAME |-> "plugin", PASSWORD |-> "secret"],
     [PASSWORD |-> "secret"]}

InitRun ==
    /\ loaded = FALSE
    /\ started = FALSE
    /\ services = <<>>
    /\ name = "metrics"
    /\ version = <<"1", ".", "0", ".", "0">>
    /\ resp = [status |-> "none"]
    /\ last = NoCall
    /\ lastOk = "none"
    /\ okCalls = <<>>
    /\ tasks = IdleTasks
    /\ \E env \in Environments,
          login \in {"ok", "raise"},
          on_start \in {"ok", "raise", "KeyboardInterrupt"},
          on_stop \in {"ok", "raise"},
          close \in {"ok", "raise"} :
          run = [pc |-> "authenticate", env |-> env, login |-> login,
                 on_start |-> on_start, on_stop |-> on_stop, close |-> close,
                 calls |-> <<>>, pending |-> "none", result |-> "none"]

authenticate_nopasswordcheck ==
    /\ run.pc = "authenticate"
    /\ IF run.login = "raise"
       THEN run' = [run EXCEPT !.pc = "on_stop", !.pending = "Exception",
                               !.calls = @ \o <<"authenticate", "login">>]
       ELSE run' = [run EXCEPT !.pc = "on_start",
                               !.calls = @ \o <<"authenticate", "login">>]
    /\ UNCHANGED <<loaded, started, services, name, version, resp, last, lastOk, okCalls, tasks>>

\* authenticate: ValueError without a password, else core.login
authenticate ==
    /\ run.pc = "authenticate"
    /\ LET password == get_config(run.env, "PASSWORD", None) IN
       IF ~truthy(password)
       THEN run' = [run EXCEPT !.pc = "on_stop", !.pending = "ValueError",
                               !.calls = Append(@, "authenticate")]
       ELSE IF run.login = "raise"
       THEN run' = [run EXCEPT !.pc = "on_stop", !.pending = "Exception",
                               !.calls = @ \o <<"authenticate", "login">>]
       ELSE run' = [run EXCEPT !.pc = "on_start",
                               !.calls = @ \o <<"authenticate", "login">>]
    /\ UNCHANGED <<loaded, started, services, name, version, resp, last, lastOk, okCalls, tasks>>

\* await self.on_start(); KeyboardInterrupt is caught by the except clause
run_on_start ==
    /\ run.pc = "on_start"
    /\ run' = [run EXCEPT !.pc = "on_stop",
                          !.pending = IF run.on_start = "raise" THEN "Exception" ELSE "none",
                          !.calls = Append(@, "on_start")]
    /\ UNCHANGED <<loaded, started, services, name, version, resp, last, lastOk, okCalls, tasks>>

\* finally: await self.on_stop(); an exception here leaves the finally block
run_on_stop ==
    /\ run.pc = "on_stop"
    /\ run' = IF run.on_stop = "raise"
              THEN [run EXCEPT !.pc = "done", !.result = "raised", !.pending = "Exception",
                               !.calls = Append(@, "on_stop")]
              ELSE [run EXCEPT !.pc = "close", !.calls = Append(@, "on_stop")]
    /\ UNCHANGED <<loaded, started, services, name, version, resp, last, lastOk, okCalls, tasks>>

\* finally: await self.core.close(); then run returns or the pending exception propagates
run_close ==
    /\ run.pc = "close"
    /\ run' = IF run.close = "raise"
              THEN [run EXCEPT !.pc = "done", !.result = "raised", !.pending = "Exception",
                               !.calls = Append(@, "close")]
              ELSE [run EXCEPT !.pc = "done",
                               !.result = IF run.pending = "none" THEN "returned" ELSE "raised",
                               !.calls = Append(@, "close")]
    /\ UNCHANGED <<loaded, started, services, name, version, resp, last, lastOk, okCalls, tasks>>

NextRun ==
    \/ authenticate
    \/ run_on_start
    \/ run_on_stop
    \/ run_close

SpecRun == InitRun /\ [][NextRun]_vars

\* ---------------------------------------------------------------- overlapping calls
\* The handlers are coroutines on one event loop and take no lock.  A handler
\* runs from its call to the first suspension inside its hook, other handlers
\* run while it is suspended, and from the resumption of the hook to the
\* handler's return (the flag assignments included) nothing else runs.
\* Calls are numbered in the order the host issues them.

RECURSIVE register_all(_)
\* self._services after the register_service calls of a constructor
register_all(calls) ==
    IF calls = <<>>
    THEN <<>>
    ELSE LET c == calls[Len(calls)] IN
         register_service(register_all(SubSeq(calls, 1, Len(calls) - 1)),
                          c.name, c.endpoint, c.method, c.description)

ConstructorCalls ==
    {<<>>,
     <<[name |-> "metrics.report", endpoint |-> <<"/", "x">>, method |-> <<"p", "o", "s", "t">>, description |-> "d"]>>}

InitConc ==
    /\ loaded = FALSE
    /\ started = FALSE
    /\ okCalls \in ConstructorCalls
    /\ services = register_all(okCalls)
    /\ name = "metrics"
    /\ version = <<"1", ".", "0", ".", "0">>
    /\ resp = [status |-> "none"]
    /\ last = NoCall
    /\ lastOk = "none"
    /\ tasks = IdleTasks
    /\ run = NoRun

\* call t of handler op: the handler awaits its hook, which suspends
EnterHook(t, op) ==
    /\ tasks[t].pc = "idle"
    /\ \A u \in 1..(t - 1) : tasks[u].pc # "idle"
    /\ tasks' = [tasks EXCEPT ![t] =
                    [pc |-> "in_hook", op |-> op, status |-> "none",
                     overlap |-> \E u \in 1..MaxTasks : tasks[u].pc = "in_hook",
                     pre_loaded |-> loaded]]
    /\ UNCHANGED <<loaded, started, services, name, version, resp, last, lastOk, okCalls, run>>

\* the hook of call t resumes and returns or raises; the handler sets the
\* flags and answers
LeaveHook(t, raises) ==
    /\ tasks[t].pc = "in_hook"
    /\ LET r == handlers(tasks[t].op, raises, loaded, started) IN
       /\ loaded' = r.loaded
       /\ started' = r.started
       /\ tasks' = [tasks EXCEPT ![t].pc = "done", ![t].status = r.resp.status]
    /\ UNCHANGED <<services, name, version, resp, last, lastOk, okCalls, run>>

NextConc ==
    \/ \E t \in 1..MaxTasks, op \in Ops : EnterHook(t, op)
    \/ \E t \in 1..MaxTasks, raises \in BOOLEAN : LeaveHook(t, raises)

SpecConc == InitConc /\ [][NextConc]_vars

\* ---------------------------------------------------------------- lifecycle states
\* The code keeps two flags and no state enum.  UNLOADED is neither flag set,
\* STARTED is both set, and LOADED and STOPPED are both "loaded, not started":
\* the flags do not tell them apart.  "started, not loaded" is none of the four.
IsUNLOADED(l, s) == ~l /\ ~s
IsLOADED(l, s) == l /\ ~s
IsSTARTED(l, s) == l /\ s
IsSTOPPED(l, s) == l /\ ~s
IsDefined(l, s) == IsUNLOADED(l, s) \/ IsLOADED(l, s) \/ IsSTARTED(l, s) \/ IsSTOPPED(l, s)

\* the last call re-invoked an operation in the state that operation leads to
Reinvoked ==
    \/ last.op = "load" /\ IsLOADED(last.pre_loaded, last.pre_started)
    \/ last.op = "start" /\ IsSTARTED(last.pre_loaded, last.pre_started)
    \/ last.op = "stop" /\ IsSTOPPED(last.pre_loaded, last.pre_started)
    \/ last.op = "unload" /\ IsUNLOADED(last.pre_loaded, last.pre_started)

FlagsKept == loaded = last.pre_loaded /\ started = last.pre_started

\* ---------------------------------------------------------------- claims C1..C10

\* C1: when the unload handler is invoked and on_unload raises, the handler
\* still answers status "ok" and the flags become loaded = FALSE, started = FALSE.
C1_UnloadFailureStillOk ==
    (last.op = "unload" /\ last.raised)
        => (resp.status = "ok" /\ ~loaded /\ ~started)

\* C2: when the hook of load, start or stop raises, in any lifecycle state, the
\* handler answers a response with status "error" and a message, and both
\* flags are what they were before the call.
C2_HookErrorIsStructured ==
    (last.op \in {"load", "start", "stop"} /\ last.raised)
        => /\ DOMAIN resp = {"status", "message"}
           /\ resp.status = "error"
           /\ FlagsKept

C2_Witness ==
    /\ last.op = "stop" /\ last.raised
    /\ last.pre_loaded /\ last.pre_started
    /\ resp.status = "error"
    /\ loaded /\ started

\* C3: an operation re-invoked in the state it leads to (load while LOADED,
\* start while STARTED, stop while STOPPED, unload while UNLOADED) answers
\* status "ok" and leaves the lifecycle state unchanged.
C3_ReinvocationSucceeds ==
    Reinvoked => (resp.status = "ok" /\ FlagsKept)

\* C4 as stated: every stop issued in STARTED answers without error and leaves
\* the plugin STOPPED, and every start issued in STOPPED answers without error
\* and leaves it STARTED.
C4_RestartCycleAlwaysSucceeds ==
    /\ (last.op = "stop" /\ IsSTARTED(last.pre_loaded, last.pre_started))
          => (resp.status = "ok" /\ IsSTOPPED(loaded, started))
    /\ (last.op = "start" /\ IsSTOPPED(last.pre_loaded, last.pre_started))
          => (resp.status = "ok" /\ IsSTARTED(loaded, started))

\* C4 amended: every stop issued in STARTED whose on_stop returns normally
\* answers "ok" and leaves the plugin STOPPED, and every start issued in
\* STOPPED whose on_start returns normally answers "ok" and leaves it STARTED;
\* a call whose hook raises answers "error" and leaves the state where it was.
C4_RestartCycle ==
    /\ (last.op = "stop" /\ IsSTARTED(last.pre_loaded, last.pre_started))
          => IF last.raised
             THEN resp.status = "error" /\ IsSTARTED(loaded, started)
             ELSE resp.status = "ok" /\ IsSTOPPED(loaded, started)
    /\ (last.op = "start" /\ IsSTOPPED(last.pre_loaded, last.pre_started))
          => IF last.raised
             THEN resp.status = "error" /\ IsSTOPPED(loaded, started)
             ELSE resp.status = "ok" /\ IsSTARTED(loaded, started)

C4_Witness ==
    /\ last.op = "start" /\ ~last.raised
    /\ IsSTOPPED(last.pre_loaded, last.pre_started)
    /\ IsSTARTED(loaded, started)
    /\ resp.status = "ok"

\* C5: in every reachable state the flags denote one of UNLOADED, LOADED,
\* STARTED, STOPPED: the plugin is never started while it is not loaded.
C5_StartedImpliesLoaded == IsDefined(loaded, started)

\* C6: after the unload handler returns, whatever the state it was called in,
\* loaded = FALSE and started = FALSE.
C6_UnloadAlwaysUnloads ==
    last.op = "unload" => (resp.status \in {"ok", "error"} /\ IsUNLOADED(loaded, started))

\* C7: an operation re-invoked in the state it leads to, where it has already
\* succeeded (it is the last operation that answered "ok"), does not run its
\* hook a second time.
C7_ReinvocationRunsNoHook ==
    (Reinvoked /\ last.op = last.pre_ok) => last.hook = "none"

\* no call is inside its hook
Quiescent == \A t \in 1..MaxTasks : tasks[t].pc # "in_hook"

\* some call was issued while another was inside its hook
Overlapped == \E t \in 1..MaxTasks : tasks[t].overlap

Issued == {t \in 1..MaxTasks : tasks[t].pc # "idle"}

\* the call whose hook was entered last
LastIssued == CHOOSE t \in Issued : \A u \in Issued : u <= t

\* C8: when overlapping load/start/stop/unload calls have all completed, the
\* flags denote one of UNLOADED, LOADED, STARTED, STOPPED and the registry is
\* what the constructor registered.  Stated for hosts that issue start only
\* once a load has completed.
C8_OverlapEndsInDefinedState ==
    (/\ Quiescent
     /\ Overlapped
     /\ \A t \in Issued : tasks[t].op = "start" => tasks[t].pre_loaded)
        => (IsDefined(loaded, started) /\ services = register_all(okCalls))

\* C9: transition handlers serialize, each hook running together with its
\* flag update and apart from the other handlers; so once overlapping start
\* and stop calls that all answered "ok" have completed, started is TRUE
\* exactly when on_start was the hook that ran last (the one entered last,
\* which under serialization is also the one that finished last).
C9_StartedReflectsLastHook ==
    (/\ Quiescent
     /\ Overlapped
     /\ \A t \in Issued : tasks[t].op \in {"start", "stop"} /\ tasks[t].status = "ok")
        => (started <=> tasks[LastIssued].op = "start")

\* C10: in every lifecycle state the metadata handler answers the identity
\* fields together with one service per register_service call that returned
\* normally, in call order.
C10_MetadataReportsRegistry ==
    last.op = "metadata" =>
        /\ resp.name = name /\ resp.version = version
        /\ resp.type = "system" /\ resp.mode = "remote"
        /\ Len(resp.services) = Len(okCalls)
        /\ \A i \in 1..Len(okCalls) :
              /\ resp.services[i].name = okCalls[i].name
              /\ resp.services[i].endpoint = okCalls[i].endpoint
              /\ resp.services[i].method \in {GET, POST}
              /\ resp.services[i].method = upper(okCalls[i].method)
              /\ IF okCalls[i].description = ""
                 THEN "description" \notin DOMAIN resp.services[i]
                 ELSE resp.services[i].description = okCalls[i].description

C10_Witness ==
    /\ last.op = "metadata"
    /\ IsUNLOADED(loaded, started)
    /\ Len(okCalls) = 2
    /\ Len(resp.services) = 2

\* ---------------------------------------------------------------- claims C11..C20

\* the endpoint of the last register_service call lacks the leading "/"
BadEndpoint(e) == e = <<>> \/ e[1] # "/"

\* the method of the last register_service call is GET or POST in no letter case
BadMethod(m) == upper(m) # GET /\ upper(m) # POST

\* C11: a register_service call whose endpoint does not start with "/" or
\* whose method is not GET or POST in any letter case raises ValueError and
\* leaves the registry as it was, entries and order.
C11_BadRegisterLeavesRegistry ==
    [][(last'.op = "register" /\ (BadEndpoint(last'.endpoint) \/ BadMethod(last'.method)))
          => (resp'.status = "ValueError" /\ services' = services)]_vars

C11_Witness ==
    /\ last.op = "register" /\ last.raised
    /\ BadEndpoint(last.endpoint) /\ ~BadMethod(last.method)
    /\ resp.status = "ValueError"
    /\ Len(services) = 1

\* C12: the registry is append-only and ordered: no step removes or reorders a
\* descriptor, and a register_service call that returns normally adds exactly
\* one descriptor, at the end, for the service it was given.
C12_RegistryAppendOnly ==
    [][/\ Len(services') >= Len(services)
       /\ SubSeq(services', 1, Len(services)) = services
       /\ (last'.op = "register" /\ ~last'.raised) =>
             /\ Len(services') = Len(services) + 1
             /\ services'[Len(services')].name = okCalls'[Len(okCalls')].name
             /\ services'[Len(services')].endpoint = last'.endpoint]_vars

C12_Witness ==
    /\ last.op = "register" /\ ~last.raised
    /\ Len(services) = 2
    /\ services[1].name = "metrics.report" /\ services[1].method = POST
    /\ services[2].name = "metrics.dump" /\ services[2].method = GET

\* C13: no two descriptors of the registry have the same name.
C13_ServiceNamesUnique ==
    \A i, j \in 1..Len(services) : i # j => services[i].name # services[j].name

\* C14: after any sequence of register_service calls, failing ones and
\* methods in any letter case included, every stored descriptor has name,
\* endpoint and method, its endpoint starts with "/" and its method is exactly
\* "GET" or "POST"; so validate_metadata returns no diagnostic about a service.
C14_RegistryWellFormed ==
    /\ \A i \in 1..Len(services) :
          /\ {"name", "endpoint", "method"} \subseteq DOMAIN services[i]
          /\ services[i].endpoint # <<>> /\ services[i].endpoint[1] = "/"
          /\ services[i].method \in {<<"G", "E", "T">>, <<"P", "O", "S", "T">>}
    /\ LET v == validate_metadata(name, version, py_services(services)) IN
          /\ ~v.raised
          /\ \A k \in 1..Len(v.errors) : v.errors[k][1] \in {"name", "version"}

C14_Witness ==
    /\ last.op = "register" /\ last.raised
    /\ Len(services) = 1
    /\ okCalls[1].method = <<"p", "o", "s", "t">> /\ services[1].method = POST

\* a diagnostic of the given check is in the list validate_metadata returned
Reports(check) == \E k \in 1..Len(resp.errors) : resp.errors[k][1] = check

\* C17: whenever validate_metadata returns, its list has the name diagnostic
\* exactly when the name is empty or "unknown_plugin"; with a name that is set
\* and not the placeholder, a version of X.Y.Z shape and an empty service
\* list it returns the empty list.
C17_NameDiagnostic ==
    (last.op = "validate" /\ ~resp.raised) =>
        /\ Reports("name") <=> (name = "" \/ name = "unknown_plugin")
        /\ (name \notin {"", "unknown_plugin"} /\ count(version, ".") >= 2 /\ services = PyList(<<>>))
              => resp.errors = <<>>

C17_Witness ==
    /\ last.op = "validate" /\ ~resp.raised
    /\ name = "unknown_plugin"
    /\ version = <<"1", ".", "0", ".", "0">>
    /\ services = PyList(<<>>)
    /\ resp.errors = <<<<"name">>>>

\* C18: whenever validate_metadata returns, its list has a version diagnostic
\* exactly when the version has fewer than two "." in it, the empty version
\* included.
C18_VersionDiagnostic ==
    (last.op = "validate" /\ ~resp.raised) =>
        (Reports("version") <=> count(version, ".") < 2)

\* C19: validate_metadata never raises, whatever _services holds: it returns
\* a list of diagnostics.
C19_ValidateNeverRaises ==
    last.op = "validate" => ~resp.raised

C16_LifecycleKeepsMetadata ==
    [][last'.op \in Ops => get_metadata' = get_metadata]_vars

C16_Witness ==
    /\ last.op = "unload" /\ ~last.raised /\ last.pre_loaded
    /\ Len(services) = 2
    /\ get_metadata.services = services

\* the number of times call c was made by run
Times(c) == Cardinality({k \in 1..Len(run.calls) : run.calls[k] = c})

\* C20: on every exit path of PluginBase.run (authenticate fails, on_start
\* fails, both succeed, and also when on_stop itself raises) on_stop was
\* called exactly once and, after it, core.close exactly once.
C20_RunAlwaysCleansUp ==
    run.pc = "done" =>
        /\ Times("on_stop") = 1
        /\ Times("close") = 1
        /\ run.calls[Len(run.calls)] = "close"

\* no password is configured for the run: PLUGIN_<ID>_PASSWORD is unset or empty
NoPassword == "PASSWORD" \notin DOMAIN run.env \/ run.env["PASSWORD"] = ""

\* authenticate of the run fails: no password, or core.login raises
AuthFails == NoPassword \/ run.login = "raise"

\* C21: run calls on_start only after authenticate has completed
\* successfully; when authentication fails, on_start is never called and run
\* ends by raising (the authentication error itself whenever the cleanup
\* calls of the finally block return normally).
C21_OnStartOnlyAfterAuthenticate ==
    /\ \A k \in 1..Len(run.calls) :
          run.calls[k] = "on_start" =>
              /\ ~AuthFails
              /\ k = 3 /\ run.calls[1] = "authenticate" /\ run.calls[2] = "login"
    /\ (run.pc = "done" /\ AuthFails) =>
          /\ Times("on_start") = 0
          /\ run.result = "raised"
          /\ (run.on_stop = "ok" /\ run.close = "ok")
                => run.pending = (IF NoPassword THEN "ValueError" ELSE "Exception")

C21_Witness ==
    /\ run.pc = "done"
    /\ "PASSWORD" \notin DOMAIN run.env
    /\ run.calls = <<"authenticate", "on_stop", "close">>
    /\ run.result = "raised" /\ run.pending = "ValueError"

====
